---- MODULE Spec2Model ----
(***************************************************************************)
(* Train -> track -> serve lifecycle of the iris classifier:               *)
(*   train.py              one training invocation logging one run         *)
(*   src/mlflow_utils.py   get_latest_run, the model resolver              *)
(*   serve.py              startup hook, track_metrics middleware,         *)
(*                         /health and /predict handlers                   *)
(*   src/prometheus_metrics.py   the counters, histograms and gauges       *)
(*                                                                         *)
(* The tracking store (mlflow), the classifier (sklearn) and the metrics   *)
(* backend (prometheus_client) are collaborators: the store is a sequence  *)
(* of run records in the backend's own listing order, a fitted classifier  *)
(* is the sorted tuple of labels it was fitted on (classes_), and every    *)
(* call into the metrics backend either takes effect or raises.            *)
(***************************************************************************)
EXTENDS Integers, Sequences, FiniteSets, TLC

\* ---------------------------------------------------------------- bounds
MaxReq == 2          \* requests the serving process handles
MaxTrainings == 1    \* invocations of train.py
MaxRuns == 3         \* runs in a store drawn for the resolver alone

\* ------------------------------------------------------------- constants
MLFLOW_EXPERIMENT_NAME == "iris_classification"
CLASS_NAMES == <<"setosa", "versicolor", "virginica">>

\* experiment names a resolver call is tried with
ExperimentNames == {MLFLOW_EXPERIMENT_NAME, "other_experiment"}

\* label sets a training file can carry (data_utils takes the "class" field
\* as it is): the three iris classes, or a file with a label below them and
\* a label above them
LabelSets == {<<0, 1, 2>>, <<-1, 0, 1, 3>>}

\* the container mlflow.search_runs hands back. The call in get_latest_run
\* passes no output_format, and the default of the fluent API is "pandas": a
\* DataFrame. "list" is a list of Run entities, the container the subscript
\* runs[0] and the attribute latest_run.info.run_id are written for, which a
\* tracking client returning entities hands back.
OutputFormats == {"list", "pandas"}

Endpoints == {"/predict", "/health"}
Method(endpoint) == IF endpoint = "/predict" THEN "POST" ELSE "GET"
\* label tuples of iris_api_requests_total: both handlers answer 200
CountKeys == {<<Method(e), e, 200>> : e \in Endpoints}
Requests == 1..MaxReq

\* ------------------------------------------------------------ Python values
NoModel == [is_none |-> TRUE, classes |-> <<>>]
Fitted(labels) == [is_none |-> FALSE, classes |-> labels]

\* seq[i] of a Python list or a numpy vector: 0-based, a negative index
\* counts from the end, anything else is an IndexError
InRange(seq, i) == i >= -Len(seq) /\ i < Len(seq)
GetItem(seq, i) == IF i >= 0 THEN seq[i + 1] ELSE seq[Len(seq) + i + 1]

\* ------------------------------------------------------------------ state
VARIABLES
  experiments,        \* tracking store: experiment name -> experiment id
  runs,               \* tracking store: run records, in the store's order
  clock,              \* the store's clock (start_time of the last run)
  train_pc,           \* position of train.py main()
  train_run,          \* run_id of the active run of train.py (0: none)
  trainings,          \* invocations of train.py finished so far
  MODEL,              \* serve.py global MODEL
  startup_pc,         \* position of the startup hook
  queried,            \* experiment name the resolver was last called with
  latest_run,         \* what get_latest_run returned (or that it raised)
  model_loaded,       \* Gauge iris_model_loaded
  api_health,         \* Gauge iris_api_health
  active_requests,    \* Gauge iris_api_active_requests
  model_load_duration,\* Histogram: number of observations
  request_count,      \* Counter keyed by <<method, endpoint, status>>
  request_duration,   \* Histogram keyed by endpoint: number of observations
  prediction_count,   \* Counter keyed by predicted class name
  prediction_confidence, \* Histogram keyed by class name: observations
  req_pc,             \* per request: position in middleware / handler
  req_endpoint,       \* per request: url path
  handled,            \* per request: what the route handler produced
  outcome             \* per request: what the caller received

store_vars == <<experiments, runs, clock>>
train_vars == <<train_pc, train_run, trainings>>
startup_vars == <<MODEL, startup_pc, queried, latest_run>>
gauge_vars == <<model_loaded, api_health, active_requests, model_load_duration>>
reqmetric_vars == <<request_count, request_duration>>
predmetric_vars == <<prediction_count, prediction_confidence>>
req_vars == <<req_pc, req_endpoint, handled, outcome>>
vars == <<store_vars, train_vars, startup_vars, gauge_vars, reqmetric_vars,
          predmetric_vars, req_vars>>

\* ------------------------------------------------------- tracking store
NoRun == [kind |-> "None", run_id |-> 0]

RunIndex(rs, id) == CHOOSE i \in 1..Len(rs) : rs[i].run_id = id

\* mlflow.get_experiment_by_name: the experiment, or None
get_experiment_by_name(exps, name) ==
  IF name \in DOMAIN exps
  THEN [found |-> TRUE, experiment_id |-> exps[name]]
  ELSE [found |-> FALSE, experiment_id |-> 0]

\* mlflow.search_runs(experiment_ids=[id], order_by=["start_time DESC"],
\* max_results=1): the rows of the experiment, latest start first, cut to one
search_runs(rs, experiment_id) ==
  LET rows == {i \in 1..Len(rs) : rs[i].experiment_id = experiment_id}
  IN IF rows = {} THEN <<>>
     ELSE LET first == CHOOSE i \in rows :
                         \A j \in rows : rs[j].start_time <= rs[i].start_time
          IN <<rs[first]>>

\* get_latest_run: "runs[0] if runs else None". A list is falsy when empty
\* and runs[0] is its first Run; the truth value of a DataFrame is a
\* ValueError, empty or not.
get_latest_run(exps, rs, name, fmt) ==
  LET experiment == get_experiment_by_name(exps, name)
      found == search_runs(rs, experiment.experiment_id)
  IN IF ~experiment.found THEN NoRun
     ELSE IF fmt = "pandas" THEN [kind |-> "ValueError", run_id |-> 0]
     ELSE IF found = <<>> THEN NoRun
     ELSE [kind |-> "Run", run_id |-> found[1].run_id]

\* mlflow.set_experiment: creates the experiment when it does not exist
set_experiment(exps, name) ==
  IF name \in DOMAIN exps THEN exps
  ELSE [n \in DOMAIN exps \cup {name} |->
          IF n = name THEN Cardinality(DOMAIN exps) + 1 ELSE exps[n]]

UpdateRun(rs, id, field, value) ==
  [rs EXCEPT ![RunIndex(rs, id)] = [@ EXCEPT ![field] = value]]

\* ------------------------------------------------------------- train.py
\* main(), lines 30-34: setup_mlflow_tracking and the two prepare_dataset
TrainSetup ==
  /\ train_pc = "idle"
  /\ trainings < MaxTrainings
  /\ experiments' = set_experiment(experiments, MLFLOW_EXPERIMENT_NAME)
  /\ train_pc' = "setup"
  /\ UNCHANGED <<runs, clock, train_run, trainings, startup_vars, gauge_vars,
                 reqmetric_vars, predmetric_vars, req_vars>>

\* main(), line 40: mlflow.start_run creates a RUNNING run stamped with the
\* current time
TrainStartRun ==
  /\ train_pc = "setup"
  /\ runs' = Append(runs,
                 [run_id |-> clock + 1,
                  experiment_id |-> experiments[MLFLOW_EXPERIMENT_NAME],
                  start_time |-> clock + 1,
                  status |-> "RUNNING",
                  params |-> FALSE, metrics |-> FALSE,
                  artifact |-> NoModel])
  /\ clock' = clock + 1
  /\ train_run' = clock + 1
  /\ train_pc' = "started"
  /\ UNCHANGED <<experiments, trainings, startup_vars, gauge_vars,
                 reqmetric_vars, predmetric_vars, req_vars>>

\* main(), lines 45-49: fit, then mlflow.log_params
TrainLogParams ==
  /\ train_pc = "started"
  /\ runs' = UpdateRun(runs, train_run, "params", TRUE)
  /\ train_pc' = "params_logged"
  /\ UNCHANGED <<experiments, clock, train_run, trainings,
                 startup_vars, gauge_vars, reqmetric_vars, predmetric_vars,
                 req_vars>>

\* main(), lines 52-59: evaluate, then mlflow.log_metrics
TrainLogMetrics ==
  /\ train_pc = "params_logged"
  /\ runs' = UpdateRun(runs, train_run, "metrics", TRUE)
  /\ train_pc' = "metrics_logged"
  /\ UNCHANGED <<experiments, clock, train_run, trainings,
                 startup_vars, gauge_vars, reqmetric_vars, predmetric_vars,
                 req_vars>>

\* main(), line 69: mlflow.sklearn.log_model(model, "iris-model"), the model
\* being the classifier fitted at line 46 on the labels of the training file
TrainLogModel ==
  /\ train_pc = "metrics_logged"
  /\ \E labels \in LabelSets :
       runs' = UpdateRun(runs, train_run, "artifact", Fitted(labels))
  /\ train_pc' = "model_logged"
  /\ UNCHANGED <<experiments, clock, train_run, trainings,
                 startup_vars, gauge_vars, reqmetric_vars, predmetric_vars,
                 req_vars>>

\* leaving the with block of line 40 normally: the run ends FINISHED
TrainEndRun ==
  /\ train_pc = "model_logged"
  /\ runs' = UpdateRun(runs, train_run, "status", "FINISHED")
  /\ train_pc' = "idle"
  /\ train_run' = 0
  /\ trainings' = trainings + 1
  /\ UNCHANGED <<experiments, clock, startup_vars, gauge_vars,
                 reqmetric_vars, predmetric_vars, req_vars>>

\* leaving the with block of line 40 by an exception of create_model or
\* train_model (lines 45-46): the run ends FAILED with nothing logged
TrainFail ==
  /\ train_pc = "started"
  /\ runs' = UpdateRun(runs, train_run, "status", "FAILED")
  /\ train_pc' = "idle"
  /\ train_run' = 0
  /\ trainings' = trainings + 1
  /\ UNCHANGED <<experiments, clock, startup_vars, gauge_vars,
                 reqmetric_vars, predmetric_vars, req_vars>>

\* ------------------------------------------------- serve.py: startup hook
\* Every call into the metrics backend may raise. fault = 0: no call of the
\* block raises; fault = i: the i-th call of the block raises and the calls
\* after it are not made.

\* startup(), lines 63-73: resolve the latest run of the configured
\* experiment; None and an exception both lead to the except block
StartupResolve ==
  /\ startup_pc = "uninit"
  /\ \E fmt \in OutputFormats :
       latest_run' = get_latest_run(experiments, runs,
                                    MLFLOW_EXPERIMENT_NAME, fmt)
  /\ queried' = MLFLOW_EXPERIMENT_NAME
  /\ startup_pc' = IF latest_run'.kind = "Run" THEN "load" ELSE "except"
  /\ UNCHANGED <<MODEL, store_vars, train_vars, gauge_vars, reqmetric_vars,
                 predmetric_vars, req_vars>>

\* mlflow.sklearn.load_model("runs:/<run_id>/iris-model"): the artifact the
\* run holds under that name, or an exception when it holds none
load_model(rs, run_id) == rs[RunIndex(rs, run_id)].artifact

\* startup(), lines 76-77
StartupLoad ==
  /\ startup_pc = "load"
  /\ LET loaded == load_model(runs, latest_run.run_id)
     IN IF loaded.is_none
        THEN /\ startup_pc' = "except"
             /\ UNCHANGED MODEL
        ELSE /\ MODEL' = loaded
             /\ startup_pc' = "record"
  /\ UNCHANGED <<queried, latest_run, store_vars, train_vars, gauge_vars,
                 reqmetric_vars, predmetric_vars, req_vars>>

\* startup(), lines 80-83: model_load_duration.observe, model_loaded.set(1),
\* api_health.set(1)
StartupRecord ==
  /\ startup_pc = "record"
  /\ \E fault \in 0..3 :
       /\ model_load_duration' =
            IF fault = 1 THEN model_load_duration ELSE model_load_duration + 1
       /\ model_loaded' = IF fault \in {0, 3} THEN 1 ELSE model_loaded
       /\ api_health' = IF fault = 0 THEN 1 ELSE api_health
       /\ startup_pc' = IF fault = 0 THEN "ready" ELSE "except"
  /\ UNCHANGED <<MODEL, queried, latest_run, active_requests, store_vars,
                 train_vars, reqmetric_vars, predmetric_vars, req_vars>>

\* startup(), lines 89-93: model_loaded.set(0), api_health.set(0), raise.
\* MODEL is left as the try block left it.
StartupExcept ==
  /\ startup_pc = "except"
  /\ \E fault \in 0..2 :
       /\ model_loaded' = IF fault = 1 THEN model_loaded ELSE 0
       /\ api_health' = IF fault = 0 THEN 0 ELSE api_health
  /\ startup_pc' = "failed"
  /\ UNCHANGED <<MODEL, queried, latest_run, active_requests,
                 model_load_duration, store_vars, train_vars, reqmetric_vars,
                 predmetric_vars, req_vars>>

\* ------------------------------------------- model_utils / metrics helpers
NoResult == [kind |-> "none", exc |-> "", prediction |-> "", pred_class |-> 0,
             confidence |-> 0, model_loaded |-> FALSE]
Raised(exc, pred_class) == [NoResult EXCEPT !.kind = "exception", !.exc = exc,
                                            !.pred_class = pred_class]

\* make_prediction: model.predict gives the label classes_[k] of the arg-max
\* column k of predict_proba; the confidence is read at proba[prediction],
\* that is by the label used as a 0-based column index. The arg-max column
\* holds 80 hundredths, every other column 10.
make_prediction(model, k) ==
  LET prediction == model.classes[k]
      proba == [i \in 1..Len(model.classes) |-> IF i = k THEN 80 ELSE 10]
  IN IF InRange(proba, prediction)
     THEN [raised |-> FALSE, pred_class |-> prediction,
           confidence |-> GetItem(proba, prediction)]
     ELSE [raised |-> TRUE, pred_class |-> prediction, confidence |-> 0]

\* record_prediction with the increment written as a store of 1: an update
\* that forgets what the counter held
record_prediction_lost_update(pcount, pconf, predicted_class, fault) ==
  [raised |-> fault # 0,
   prediction_count |->
     IF fault = 1 THEN pcount
     ELSE [pcount EXCEPT ![predicted_class] = 1],
   prediction_confidence |->
     IF fault = 0 THEN [pconf EXCEPT ![predicted_class] = @ + 1]
     ELSE pconf]

\* record_prediction: prediction_count.labels(..).inc(), then
\* prediction_confidence.labels(..).observe(confidence)
record_prediction(pcount, pconf, predicted_class, fault) ==
  [raised |-> fault # 0,
   prediction_count |->
     IF fault = 1 THEN pcount
     ELSE [pcount EXCEPT ![predicted_class] = @ + 1],
   prediction_confidence |->
     IF fault = 0 THEN [pconf EXCEPT ![predicted_class] = @ + 1]
     ELSE pconf]

\* MetricsRecorder.start / MetricsRecorder.end: the only code that moves the
\* gauge active_requests. serve.py creates no MetricsRecorder, so no action
\* below applies them.
MetricsRecorder_start(gauge) == gauge + 1
MetricsRecorder_end(gauge) == gauge - 1

\* ------------------------------------------------ serve.py: request path
\* @app.on_event("startup"): the framework runs the hook to its end before it
\* dispatches a request. After a hook that raised, requests are still let
\* through here, so that what the handlers would do then is on record.
LoopFree == startup_pc \in {"ready", "failed"}

\* track_metrics, lines 100-101: take start_time, await call_next(request).
\* Requests are numbered in the order they arrive.
Dispatch(r, endpoint) ==
  /\ LoopFree
  /\ req_pc[r] = "new"
  /\ \A q \in Requests : q < r => req_pc[q] # "new"
  /\ req_pc' = [req_pc EXCEPT ![r] = "called"]
  /\ req_endpoint' = [req_endpoint EXCEPT ![r] = endpoint]
  /\ UNCHANGED <<handled, outcome, store_vars, train_vars, startup_vars,
                 gauge_vars, reqmetric_vars, predmetric_vars>>

\* health(), lines 119-125
health(r) ==
  /\ LoopFree
  /\ req_pc[r] = "called"
  /\ req_endpoint[r] = "/health"
  /\ handled' = [handled EXCEPT ![r] =
                   [NoResult EXCEPT !.kind = "response",
                                    !.model_loaded = ~MODEL.is_none]]
  /\ req_pc' = [req_pc EXCEPT ![r] = "returned"]
  /\ UNCHANGED <<req_endpoint, outcome, store_vars, train_vars, startup_vars,
                 gauge_vars, reqmetric_vars, predmetric_vars>>

\* predict() without the guard of lines 143-144: with MODEL None the call
\* MODEL.predict inside make_prediction is an AttributeError
predict_body_unguarded(model, k, fault, pcount, pconf) ==
  LET unrecorded == [prediction_count |-> pcount,
                     prediction_confidence |-> pconf]
  IN IF model.is_none
     THEN [result |-> Raised("AttributeError", 0)] @@ unrecorded
     ELSE LET mp == make_prediction(model, k)
          IN IF mp.raised \/ ~InRange(CLASS_NAMES, mp.pred_class)
             THEN [result |-> Raised("IndexError", mp.pred_class)] @@ unrecorded
             ELSE LET species == GetItem(CLASS_NAMES, mp.pred_class)
                      rec == record_prediction(pcount, pconf, species, fault)
                  IN [result |->
                        IF rec.raised
                        THEN Raised("MetricsRecordingFailure", 0)
                        ELSE [NoResult EXCEPT !.kind = "response",
                                              !.prediction = species,
                                              !.pred_class = mp.pred_class,
                                              !.confidence = mp.confidence],
                      prediction_count |-> rec.prediction_count,
                      prediction_confidence |-> rec.prediction_confidence]

\* predict(), lines 143-167, for the arg-max column k the classifier picks
\* for the posted features
predict_body(model, k, fault, pcount, pconf) ==
  LET mp == make_prediction(model, k)
      unrecorded == [prediction_count |-> pcount,
                     prediction_confidence |-> pconf]
  IN IF model.is_none
     THEN [result |-> Raised("Model not loaded", 0)] @@ unrecorded
     ELSE IF mp.raised \/ ~InRange(CLASS_NAMES, mp.pred_class)
     THEN [result |-> Raised("IndexError", mp.pred_class)] @@ unrecorded
     ELSE LET species == GetItem(CLASS_NAMES, mp.pred_class)
              rec == record_prediction(pcount, pconf, species, fault)
          IN [result |->
                IF rec.raised
                THEN Raised("MetricsRecordingFailure", 0)
                ELSE [NoResult EXCEPT !.kind = "response",
                                      !.prediction = species,
                                      !.pred_class = mp.pred_class,
                                      !.confidence = mp.confidence],
              prediction_count |-> rec.prediction_count,
              prediction_confidence |-> rec.prediction_confidence]

predict(r) ==
  /\ LoopFree
  /\ req_pc[r] = "called"
  /\ req_endpoint[r] = "/predict"
  /\ \E k \in 1..(IF MODEL.is_none THEN 1 ELSE Len(MODEL.classes)),
        fault \in 0..2 :
       LET done == predict_body(MODEL, k, fault, prediction_count,
                                prediction_confidence)
       IN /\ handled' = [handled EXCEPT ![r] = done.result]
          /\ prediction_count' = done.prediction_count
          /\ prediction_confidence' = done.prediction_confidence
  /\ req_pc' = [req_pc EXCEPT ![r] = "returned"]
  /\ UNCHANGED <<req_endpoint, outcome, store_vars, train_vars, startup_vars,
                 gauge_vars, reqmetric_vars>>

\* track_metrics, lines 101-113, once call_next is over: an exception of the
\* handler leaves the middleware at line 101; otherwise
\* request_duration.labels(..).observe, request_count.labels(..).inc, return
track_metrics_after(result, endpoint, fault, rcount, rduration) ==
  IF result.kind = "exception"
  THEN [outcome |-> result, request_count |-> rcount,
        request_duration |-> rduration]
  ELSE [outcome |-> IF fault = 0 THEN result
                    ELSE Raised("MetricsRecordingFailure", 0),
        request_duration |->
          IF fault = 1 THEN rduration
          ELSE [rduration EXCEPT ![endpoint] = @ + 1],
        request_count |->
          IF fault = 0
          THEN [rcount EXCEPT ![<<Method(endpoint), endpoint, 200>>] = @ + 1]
          ELSE rcount]

track_metrics(r) ==
  /\ LoopFree
  /\ req_pc[r] = "returned"
  /\ \E fault \in 0..2 :
       LET done == track_metrics_after(handled[r], req_endpoint[r], fault,
                                       request_count, request_duration)
       IN /\ outcome' = [outcome EXCEPT ![r] = done.outcome]
          /\ request_count' = done.request_count
          /\ request_duration' = done.request_duration
  /\ req_pc' = [req_pc EXCEPT ![r] = "done"]
  /\ UNCHANGED <<req_endpoint, handled, store_vars, train_vars, startup_vars,
                 gauge_vars, predmetric_vars>>

\* ---------------------------------------------------------- specification
ClassNameSet == {CLASS_NAMES[i] : i \in 1..Len(CLASS_NAMES)}

ServingInit ==
  /\ train_pc = "idle"
  /\ train_run = 0
  /\ trainings = 0
  /\ MODEL = NoModel
  /\ startup_pc = "uninit"
  /\ queried = ""
  /\ latest_run = NoRun
  /\ model_loaded = 0
  /\ api_health = 0
  /\ active_requests = 0
  /\ model_load_duration = 0
  /\ request_count = [key \in CountKeys |-> 0]
  /\ request_duration = [e \in Endpoints |-> 0]
  /\ prediction_count = [c \in ClassNameSet |-> 0]
  /\ prediction_confidence = [c \in ClassNameSet |-> 0]
  /\ req_pc = [r \in Requests |-> "new"]
  /\ req_endpoint = [r \in Requests |-> ""]
  /\ handled = [r \in Requests |-> NoResult]
  /\ outcome = [r \in Requests |-> NoResult]

\* a fresh tracking store and a serving process about to start
Init ==
  /\ experiments = <<>>
  /\ runs = <<>>
  /\ clock = 0
  /\ ServingInit

Next ==
  \/ TrainSetup
  \/ TrainStartRun
  \/ TrainLogParams
  \/ TrainLogMetrics
  \/ TrainLogModel
  \/ TrainEndRun
  \/ TrainFail
  \/ StartupResolve
  \/ StartupLoad
  \/ StartupRecord
  \/ StartupExcept
  \/ \E r \in Requests, endpoint \in Endpoints : Dispatch(r, endpoint)
  \/ \E r \in Requests : health(r)
  \/ \E r \in Requests : predict(r)
  \/ \E r \in Requests : track_metrics(r)

Spec == Init /\ [][Next]_vars

\* --------------------------------------------- the resolver on its own
\* Stores the resolver can be pointed at: up to MaxRuns runs in the listing
\* order of the backend (runs are listed by their random ids, not by age),
\* started at pairwise distinct times, spread over the experiments present.
Perms(n) == {t \in [1..n -> 1..n] : \A i, j \in 1..n : i # j => t[i] # t[j]}
Statuses == {"FINISHED", "RUNNING"}

ExperimentMaps ==
  {[n \in names |-> IF n = MLFLOW_EXPERIMENT_NAME THEN 1 ELSE 2] :
     names \in SUBSET ExperimentNames}

StoredRun(id, experiment_id, start_time, status) ==
  [run_id |-> id, experiment_id |-> experiment_id, start_time |-> start_time,
   status |-> status,
   params |-> TRUE, metrics |-> status = "FINISHED",
   artifact |-> IF status = "FINISHED" THEN Fitted(<<0, 1, 2>>) ELSE NoModel]

Stores(exps) ==
  LET ids == {exps[n] : n \in DOMAIN exps}
  IN UNION {
       {[i \in 1..n |-> StoredRun(i, e[i], t[i],
                                  IF t[i] = n THEN last ELSE "FINISHED")] :
          e \in [1..n -> ids], t \in Perms(n), last \in Statuses}
       : n \in 0..MaxRuns}

ResolverInit ==
  /\ experiments \in ExperimentMaps
  /\ runs \in Stores(experiments)
  /\ clock = Len(runs)
  /\ ServingInit

\* one call get_latest_run(name)
Resolve(name) ==
  /\ queried = ""
  /\ queried' = name
  /\ \E fmt \in OutputFormats :
       latest_run' = get_latest_run(experiments, runs, name, fmt)
  /\ UNCHANGED <<MODEL, startup_pc, store_vars, train_vars, gauge_vars,
                 reqmetric_vars, predmetric_vars, req_vars>>

ResolverNext == \E name \in ExperimentNames : Resolve(name)

SpecResolver == ResolverInit /\ [][ResolverNext]_vars

\* ------------------------------------------------------------ properties
Handled(r) == req_pc[r] \in {"returned", "done"}
PredictHandled == {r \in Requests : req_endpoint[r] = "/predict" /\ Handled(r)}
Finished(endpoint) ==
  {r \in Requests : req_endpoint[r] = endpoint /\ req_pc[r] = "done"}
InFlight == {r \in Requests : req_pc[r] \in {"called", "returned"}}
ResolvedNotFound == queried # "" /\ latest_run.kind = "None"
RunsOf(name) ==
  {i \in 1..Len(runs) :
     name \in DOMAIN experiments /\ runs[i].experiment_id = experiments[name]}
ClassIndexes == 0..(Len(CLASS_NAMES) - 1)

\* C1: once get_latest_run has come back with None in the startup hook, the
\* hook is on its way out through the except block and never READY, MODEL
\* stays None, and every /predict handled from then on raises
\* "Model not loaded", which is also what its caller gets: no prediction and
\* no other exception.
C1_NotFoundNeverServes ==
  ResolvedNotFound =>
    /\ startup_pc \in {"except", "failed"}
    /\ MODEL.is_none
    /\ \A r \in PredictHandled : handled[r] = Raised("Model not loaded", 0)
    /\ \A r \in Finished("/predict") : outcome[r] = Raised("Model not loaded", 0)

C1_Witness ==
  /\ ResolvedNotFound
  /\ startup_pc = "failed"
  /\ \E r \in Finished("/predict") : outcome[r].exc = "Model not loaded"

\* C2: asked for an experiment that holds at least one run, get_latest_run
\* returns a run of that experiment, the one with the greatest start time,
\* wherever that run stands in the store's listing.
C2_ReturnsLatestStarted ==
  (queried # "" /\ RunsOf(queried) # {}) =>
    /\ latest_run.kind = "Run"
    /\ \E i \in RunsOf(queried) :
         /\ runs[i].run_id = latest_run.run_id
         /\ \A j \in RunsOf(queried) : runs[j].start_time <= runs[i].start_time

\* C3: asked for an experiment that does not exist, or that exists and holds
\* no run, get_latest_run returns None and raises nothing.
C3_NotFoundWhenNothingLogged ==
  (queried # "" /\ RunsOf(queried) = {}) => latest_run = NoRun

\* C4: a run that get_latest_run hands to the startup hook is a completed
\* one: FINISHED, with its params, its metrics and its model artifact, so the
\* load_model that follows finds the artifact.
C4_ResolvedRunIsCompleted ==
  startup_pc = "load" =>
    LET run == runs[RunIndex(runs, latest_run.run_id)]
    IN /\ run.status = "FINISHED"
       /\ run.params
       /\ run.metrics
       /\ ~run.artifact.is_none

\* C5: after the startup hook, READY goes with a held model and both gauges
\* at 1, FAILED goes with no model and both gauges at 0, and /health reports
\* model_loaded accordingly.
C5_ReadinessMatchesState ==
  /\ startup_pc = "ready" =>
       ~MODEL.is_none /\ model_loaded = 1 /\ api_health = 1
  /\ startup_pc = "failed" =>
       MODEL.is_none /\ model_loaded = 0 /\ api_health = 0
  /\ \A r \in Requests :
       (req_endpoint[r] = "/health" /\ Handled(r)) =>
         handled[r].model_loaded = (startup_pc = "ready")

\* C6: when no recording call has failed in any request, the counter of each
\* class equals the number of /predict handlers that answered with that
\* class, however the requests overlapped: nothing lost, nothing counted
\* twice.
C6_CountersMatchPredictions ==
  (\A r \in Requests : /\ handled[r].exc # "MetricsRecordingFailure"
                       /\ outcome[r].exc # "MetricsRecordingFailure") =>
    \A c \in ClassNameSet :
      prediction_count[c] =
        Cardinality({r \in PredictHandled :
                       handled[r].kind = "response" /\ handled[r].prediction = c})

\* two /predict requests in flight together, both answered, with two classes
C6_Witness ==
  /\ \A r \in Requests : handled[r].exc # "MetricsRecordingFailure"
  /\ \E r, q \in PredictHandled :
       /\ req_pc[r] = "returned" /\ req_pc[q] = "returned"
       /\ handled[r].kind = "response" /\ handled[q].kind = "response"
       /\ handled[r].prediction # handled[q].prediction

\* C7: in the READY runtime a recording call that raises never reaches the
\* caller: no handler and no request ends in the recording failure, and a
\* request whose handler produced a response delivers that response.
C7_RecordingFailureSwallowed ==
  startup_pc = "ready" =>
    \A r \in Requests :
      /\ handled[r].exc # "MetricsRecordingFailure"
      /\ (req_pc[r] = "done" /\ handled[r].kind = "response") =>
           outcome[r] = handled[r]

\* C8: a class index outside 0..K-1 never comes back as a class name: every
\* /predict that answers with a prediction (and so recorded it) had a class
\* index inside the range.
C8_UnknownClassIndexRejected ==
  \A r \in PredictHandled :
    handled[r].kind = "response" => handled[r].pred_class \in ClassIndexes

\* C9: with no recording call failing, every request that has left the
\* middleware, by a response or by an exception of its handler, stands once
\* in the request counter of its endpoint (the only keys the counter ever
\* gets carry status 200) and once in the latency histogram of its endpoint.
C9_EveryRequestCountedOnce ==
  (\A r \in Requests : /\ handled[r].exc # "MetricsRecordingFailure"
                       /\ outcome[r].exc # "MetricsRecordingFailure") =>
    \A e \in Endpoints :
      /\ request_count[<<Method(e), e, 200>>] = Cardinality(Finished(e))
      /\ request_duration[e] = Cardinality(Finished(e))

\* C10: in the READY runtime the gauge active_requests equals the number of
\* requests being handled.
C10_ActiveRequestsTracksInFlight ==
  startup_pc = "ready" => active_requests = Cardinality(InFlight)

====
